---- MODULE Spec2Model ----
(***************************************************************************)
(* A model of crates/revm-jit-context/src/lib.rs: the execution context    *)
(* handed to JIT-compiled EVM functions (EvmContext), the typed wrapper    *)
(* over the raw calling convention (JitEvmFn), the fixed-capacity stack    *)
(* view (EvmStack) and the native-endian 256-bit word (EvmWord).           *)
(*                                                                         *)
(* Three specifications share the module:                                  *)
(*   Spec       the interpreter / context / compiled-function protocol     *)
(*   SpecStack  the EvmStack constructors and views                        *)
(*   SpecWord   the EvmWord conversions (pure functions over inputs)       *)
(***************************************************************************)
EXTENDS Integers, Sequences, FiniteSets, TLC

VARIABLES
    debug_assertions,   \* cfg!(debug_assertions) of the build
    interp,             \* the Interpreter values the caller holds: id -> Interpreter
    heap,               \* buffers owned by SharedMemory values: cell -> contents
    ctx,                \* the caller's live (EvmContext, stack, stack_len), or NoCtx
    pc,                 \* the caller's position
    last,               \* what the last operation was given and returned
    sv,                 \* SpecStack: the last stack-view construction
    target,             \* SpecWord: cfg(target_endian)
    buf,                \* SpecWord: the caller's 32-byte buffer
    word,               \* SpecWord: the EvmWord in hand
    wout                \* SpecWord: the last conversion and its result

vars == <<debug_assertions, interp, heap, ctx, pc, last, sv, target, buf, word, wout>>

callVars == <<interp, heap, ctx, pc, last>>
wordVars == <<target, buf, word, wout>>

----------------------------------------------------------------------------
(* Bounds of the model *)

\* gas units a fresh interpreter may start with
MaxGas == 2

----------------------------------------------------------------------------
(* Values *)

\* InstructionResult: Continue is the initial status; the others are what a
\* compiled function may return
Statuses == {"Stop", "Revert"}

Act(kind, result, output, gas) ==
    [kind |-> kind, result |-> result, output |-> output, gas |-> gas]

\* InterpreterAction::None, the Default of InterpreterAction
NoAction == Act("None", "Continue", <<>>, 0)

\* InterpreterAction::Return { result: InterpreterResult { result, output, gas } }
ReturnAction(result, output, gas) == Act("Return", result, output, gas)

\* actions a compiled function may store: a nested call request, or a return
\* that carries output bytes
FnActions == {Act("Call", "Continue", <<>>, 0), ReturnAction("Stop", <<7>>, 0)}

\* InterpreterAction::is_some
is_some(a) == a.kind # "None"

\* contents of a SharedMemory buffer
MemVals == {<<>>, <<1>>}

\* the caller holds at most two interpreters: the one it runs and a snapshot
Ids == {1, 2}

\* one SharedMemory buffer per interpreter slot
Cells == Ids

RetDatas == {<<>>, <<9>>}

Contracts == {"c1", "c2"}

NoInterp == [live |-> FALSE]
NoCtx == [live |-> FALSE]
NoWrite == [kind |-> "NoWrite"]

\* EvmStack::CAPACITY
CAPACITY == 1024

\* EvmStack::SIZE
SIZE == 32 * CAPACITY

Some(x) == [some |-> TRUE, val |-> x]
None == [some |-> FALSE]
\* ptr::null_mut(), and a pointer made from a reference
NullPtr == [null |-> TRUE]
Ptr(x) == [null |-> FALSE, to |-> x]

\* revm_interpreter::Stack::new(): an empty vector of capacity STACK_LIMIT = CAPACITY
NewStack == [cap |-> CAPACITY, len |-> 0]

OtherId(i) == CHOOSE j \in Ids : j # i

\* the contents of an interpreter's memory buffer
Mem(it, hp) == hp[it.shared_memory]

----------------------------------------------------------------------------
(* EvmStack: constructors *)

\* EvmStack::from_ptr / from_mut_ptr: the pointer is cast to a reference to
\* [MaybeUninit<EvmWord>; 1024]; nothing is validated.  `backing` is the number
\* of words the pointer really points to.
from_mut_ptr(backing) ==
    [outcome |-> "view", slots |-> CAPACITY, backing |-> backing]

from_ptr(backing) == from_mut_ptr(backing)

Panic == [outcome |-> "panic"]

\* from_mut_slice asserting len > CAPACITY
from_mut_slice_strict(len) ==
    IF len > CAPACITY THEN from_mut_ptr(len) ELSE Panic

\* EvmStack::from_slice / from_mut_slice: assert!(slice.len() >= CAPACITY)
from_slice(len) ==
    IF len >= CAPACITY THEN from_ptr(len) ELSE Panic

from_mut_slice(len) ==
    IF len >= CAPACITY THEN from_mut_ptr(len) ELSE Panic

\* EvmStack::from_vec / from_mut_vec: assert!(vec.capacity() >= CAPACITY)
from_vec(cap) ==
    IF cap >= CAPACITY THEN from_ptr(cap) ELSE Panic

from_mut_vec(cap) ==
    IF cap >= CAPACITY THEN from_mut_ptr(cap) ELSE Panic

\* from_interpreter_stack with assert! in place of debug_assert!
from_interpreter_stack_assert(stack, dbg) ==
    IF ~(stack.cap >= CAPACITY)
    THEN Panic
    ELSE [outcome |-> "view",
          stack |-> from_mut_ptr(stack.cap),
          stack_len |-> "stack_len"]

\* EvmStack::from_interpreter_stack: debug_assert!(capacity >= CAPACITY), which
\* is compiled out without debug assertions; then from_mut_ptr on the vector's
\* buffer, and a reference to the stack-length cell
from_interpreter_stack(stack, dbg) ==
    IF dbg /\ ~(stack.cap >= CAPACITY)
    THEN Panic
    ELSE [outcome |-> "view",
          stack |-> from_mut_ptr(stack.cap),
          stack_len |-> "stack_len"]

\* EvmStack::as_slice / as_mut_slice: &[EvmWord; CAPACITY]
as_slice(view) == view.slots

\* EvmStack::as_bytes / as_bytes_mut: &[u8; SIZE]
as_bytes(view) == 32 * view.slots

----------------------------------------------------------------------------
(* EvmContext *)

\* EvmContext::from_interpreter_with_stack: every field but host, is_static and
\* resume_at is a reference to the interpreter's own field (named here by the
\* interpreter's id `of` and the field); host is the caller's host object
from_interpreter_with_stack(i, it, dbg) ==
    LET s == from_interpreter_stack(it.stack, dbg)
    IN  IF s.outcome = "panic"
        THEN Panic
        ELSE [outcome |-> "ok",
              ecx |-> [live |-> TRUE,
                       of |-> i,
                       memory |-> "shared_memory",
                       contract |-> "contract",
                       gas |-> "gas",
                       host |-> "host",
                       next_action |-> "next_action",
                       return_data |-> "return_data_buffer",
                       is_static |-> it.is_static,
                       resume_at |-> 0],
              stack |-> s.stack,
              stack_len |-> s.stack_len]

\* EvmContext::from_interpreter
from_interpreter(i, it, dbg) ==
    LET r == from_interpreter_with_stack(i, it, dbg)
    IN  IF r.outcome = "panic" THEN Panic ELSE [outcome |-> "ok", ecx |-> r.ecx]

\* to_interpreter sharing the context's memory buffer instead of cloning it
to_interpreter_shallow(cx, stack, it, hp, c) ==
    [interp |-> [live |-> TRUE,
                 instruction_pointer |-> it[cx.contract],
                 contract |-> it[cx.contract],
                 instruction_result |-> "Continue",
                 gas |-> it[cx.gas],
                 shared_memory |-> it[cx.memory],
                 stack |-> stack,
                 return_data_buffer |-> it[cx.return_data],
                 is_static |-> cx.is_static,
                 next_action |-> it[cx.next_action]],
     heap |-> hp]

\* EvmContext::to_interpreter(&self, stack): clones what the context refers to
\* into a new Interpreter.  SharedMemory::clone copies the buffer into the new
\* cell `c`.
to_interpreter(cx, stack, it, hp, c) ==
    [interp |-> [live |-> TRUE,
                 instruction_pointer |-> it[cx.contract],
                 contract |-> it[cx.contract],
                 instruction_result |-> "Continue",
                 gas |-> it[cx.gas],
                 shared_memory |-> c,
                 stack |-> stack,
                 return_data_buffer |-> it[cx.return_data],
                 is_static |-> cx.is_static,
                 next_action |-> it[cx.next_action]],
     heap |-> [hp EXCEPT ![c] = hp[it[cx.memory]]]]

----------------------------------------------------------------------------
(* JitEvmFn *)

\* what one run of a compiled function does: it may store a next action
\* through ecx.next_action, spends gas, writes memory, and returns a status.
\* D gives the sets the run is drawn from.
Effects(it, D) ==
    [write : D.write,
     status : D.status,
     gas_used : 0 .. it.gas,
     mem : D.mem]

\* a compiled function is generated with or without a local stack and with or
\* without stack-length inspection
Fns == [local_stack : BOOLEAN, inspect_stack_length : BOOLEAN]

\* the raw function (RawJitEvmFn) mutates in place what its pointer arguments
\* and the context refer to
RawFn(e, cx, it, hp) ==
    [interp |-> [it EXCEPT ![cx.gas] = @ - e.gas_used,
                           ![cx.next_action] =
                               IF e.write.kind = "NoWrite" THEN @ ELSE e.write],
     heap |-> [hp EXCEPT ![it[cx.memory]] = e.mem],
     status |-> e.status]

\* option_as_mut_ptr
option_as_mut_ptr(opt) == IF opt.some THEN Ptr(opt.val) ELSE NullPtr

\* JitEvmFn::call: converts the options to pointers and invokes the raw
\* function; there is no assertion on the way
call(stack, stack_len, cx, e, it, hp) ==
    LET sp == option_as_mut_ptr(stack)
        lp == option_as_mut_ptr(stack_len)
        r == RawFn(e, cx, it, hp)
    IN  [interp |-> r.interp,
         heap |-> r.heap,
         status |-> r.status,
         stack_ptr |-> sp,
         len_ptr |-> lp,
         asserted |-> FALSE,
         raw_invoked |-> TRUE]

\* call_with_interpreter returning a clone of the action and leaving the slot
\* as the function left it
call_with_interpreter_clone(e, i, it, hp, dbg) ==
    LET b == from_interpreter_with_stack(i, it, dbg)
    IN  IF b.outcome = "panic"
        THEN [outcome |-> "panic"]
        ELSE LET r == call(Some(b.stack), Some(b.stack_len), b.ecx, e, it, hp)
                 it1 == [r.interp EXCEPT !.instruction_result = r.status]
             IN  [outcome |-> "ok",
                  interp |-> it1,
                  heap |-> r.heap,
                  ret |-> IF is_some(it1.next_action)
                          THEN it1.next_action
                          ELSE ReturnAction(it1.instruction_result, <<>>, it1.gas),
                  slot_at_entry |-> it[b.ecx.next_action]]

\* JitEvmFn::call_with_interpreter
call_with_interpreter(e, i, it, hp, dbg) ==
    LET b == from_interpreter_with_stack(i, it, dbg)
    IN  IF b.outcome = "panic"
        THEN [outcome |-> "panic"]
        ELSE LET r == call(Some(b.stack), Some(b.stack_len), b.ecx, e, it, hp)
                 it1 == [r.interp EXCEPT !.instruction_result = r.status]
             IN  IF is_some(it1.next_action)
                 THEN [outcome |-> "ok",
                       \* core::mem::take
                       interp |-> [it1 EXCEPT !.next_action = NoAction],
                       heap |-> r.heap,
                       ret |-> it1.next_action,
                       slot_at_entry |-> it[b.ecx.next_action]]
                 ELSE [outcome |-> "ok",
                       interp |-> it1,
                       heap |-> r.heap,
                       ret |-> ReturnAction(it1.instruction_result, <<>>, it1.gas),
                       slot_at_entry |-> it[b.ecx.next_action]]

\* whether the arguments' nullability is not what function f was generated for
Mismatch(f, stack, stack_len) ==
    \/ ~stack.some /\ ~f.local_stack
    \/ ~stack_len.some /\ f.inspect_stack_length

----------------------------------------------------------------------------
(* The caller's protocol *)

\* Interpreter::new(contract, gas_limit, is_static), after which the caller may
\* have filled the return-data buffer
NewInterpreter(p, gas, c) ==
    [live |-> TRUE,
     instruction_pointer |-> p.contract,
     contract |-> p.contract,
     instruction_result |-> "Continue",
     gas |-> gas,
     shared_memory |-> c,
     stack |-> NewStack,
     return_data_buffer |-> p.return_data,
     is_static |-> p.is_static,
     next_action |-> NoAction]

\* the contracts, static flags and return data the interpreters are made with
Profiles ==
    {[contract |-> "c1", is_static |-> FALSE, return_data |-> <<>>],
     [contract |-> "c2", is_static |-> TRUE, return_data |-> <<9>>]}

InitCall ==
    /\ \E p \in Profiles :
           interp = [i \in Ids |-> IF i = 1 THEN NewInterpreter(p, MaxGas, 1)
                                            ELSE NoInterp]
    /\ heap = [c \in Cells |-> <<>>]
    /\ ctx = NoCtx
    /\ pc = "idle"
    /\ last = [op |-> "none"]

IdleCall ==
    /\ interp = [i \in Ids |-> NoInterp]
    /\ heap = [c \in Cells |-> <<>>]
    /\ ctx = NoCtx
    /\ pc = "idle"
    /\ last = [op |-> "none"]

\* the caller runs a compiled function on interpreter i with the convenience
\* entry point; i is not borrowed by a live context
CallWithInterpreter(i, D) ==
    /\ pc # "crashed"
    /\ interp[i].live
    /\ ctx.live => ctx.ecx.of # i
    /\ \E e \in Effects(interp[i], D) :
         LET r == call_with_interpreter(e, i, interp[i], heap, debug_assertions)
             j == OtherId(i)
         IN  IF r.outcome = "panic"
             THEN /\ pc' = "crashed"
                  /\ last' = [op |-> "call_with_interpreter", on |-> i, panicked |-> TRUE]
                  /\ UNCHANGED <<interp, heap>>
             ELSE /\ interp' = [interp EXCEPT ![i] = r.interp]
                  /\ heap' = r.heap
                  /\ pc' = pc
                  /\ last' = [op |-> "call_with_interpreter", on |-> i,
                              panicked |-> FALSE,
                              write |-> e.write,
                              status |-> e.status,
                              gas_used |-> e.gas_used,
                              ret |-> r.ret,
                              slot_at_entry |-> r.slot_at_entry,
                              other |-> interp[j],
                              other_mem |-> IF interp[j].live THEN Mem(interp[j], heap) ELSE <<>>]
    /\ UNCHANGED <<debug_assertions, ctx, sv, wordVars>>

\* the caller builds a context (and the stack view and length cell) over
\* interpreter i
FromInterpreterWithStack(i) ==
    /\ pc = "idle"
    /\ interp[i].live
    /\ LET r == from_interpreter_with_stack(i, interp[i], debug_assertions)
       IN  IF r.outcome = "panic"
           THEN /\ pc' = "crashed"
                /\ ctx' = NoCtx
                /\ last' = [op |-> "from_interpreter_with_stack", on |-> i,
                            panicked |-> TRUE]
           ELSE /\ pc' = "ctx"
                /\ ctx' = [live |-> TRUE, ecx |-> r.ecx, stack |-> r.stack,
                           stack_len |-> r.stack_len]
                /\ last' = [op |-> "from_interpreter_with_stack", on |-> i,
                            panicked |-> FALSE]
    /\ UNCHANGED <<debug_assertions, interp, heap, sv, wordVars>>

\* the caller invokes compiled function f through the low-level entry point,
\* with or without the stack and the stack length.  A function invoked with a
\* null pointer it dereferences is undefined behaviour: it may crash, or run on.
Call(f, no_stack, no_len, D) ==
    /\ pc \in {"ctx", "called"}
    /\ LET i == ctx.ecx.of
           j == OtherId(i)
           stack == IF no_stack THEN None ELSE Some(ctx.stack)
           stack_len == IF no_len THEN None ELSE Some(ctx.stack_len)
       IN  \E e \in Effects(interp[i], D), crash \in BOOLEAN :
             LET r == call(stack, stack_len, ctx.ecx, e, interp[i], heap)
             IN  /\ crash => Mismatch(f, stack, stack_len)
                 /\ last' = [op |-> "call", on |-> i, f |-> f,
                             stack |-> stack, stack_len |-> stack_len,
                             stack_ptr |-> r.stack_ptr, len_ptr |-> r.len_ptr,
                             asserted |-> r.asserted,
                             raw_invoked |-> r.raw_invoked,
                             crashed |-> crash,
                             other |-> interp[j],
                             other_mem |-> IF interp[j].live THEN Mem(interp[j], heap) ELSE <<>>]
                 /\ IF crash
                    THEN /\ pc' = "crashed"
                         /\ UNCHANGED <<interp, heap>>
                    ELSE /\ pc' = "called"
                         /\ interp' = [interp EXCEPT ![i] = r.interp]
                         /\ heap' = r.heap
    /\ UNCHANGED <<debug_assertions, ctx, sv, wordVars>>

\* the caller snapshots the live context into the other interpreter slot,
\* attaching a fresh stack
ToInterpreter ==
    /\ pc \in {"ctx", "called"}
    /\ LET i == ctx.ecx.of
           j == OtherId(i)
           r == to_interpreter(ctx.ecx, NewStack, interp[i], heap, j)
       IN  /\ interp' = [interp EXCEPT ![j] = r.interp]
           /\ heap' = r.heap
           /\ last' = [op |-> "to_interpreter", src |-> i, dst |-> j,
                       stack |-> NewStack,
                       pre |-> interp[i], pre_mem |-> Mem(interp[i], heap)]
    /\ UNCHANGED <<debug_assertions, ctx, pc, sv, wordVars>>

\* the context goes out of scope
DropCtx ==
    /\ pc \in {"ctx", "called"}
    /\ ctx' = NoCtx
    /\ pc' = "idle"
    /\ last' = [op |-> "drop"]
    /\ UNCHANGED <<debug_assertions, interp, heap, sv, wordVars>>

IdleStack == sv = [op |-> "none"]

IdleWord ==
    /\ target = "little"
    /\ buf = <<>>
    /\ word = <<>>
    /\ wout = [op |-> "none"]

\* Spec: one interpreter, run through both entry points
Init ==
    /\ debug_assertions \in BOOLEAN
    /\ InitCall
    /\ IdleStack
    /\ IdleWord

RunDraw ==
    [write |-> {NoWrite} \cup FnActions, status |-> Statuses, mem |-> {<<1>>}]

Next ==
    \/ CallWithInterpreter(1, RunDraw)
    \/ FromInterpreterWithStack(1)
    \/ \E f \in Fns, ns \in BOOLEAN, nl \in BOOLEAN : Call(f, ns, nl, RunDraw)
    \/ DropCtx

Spec == Init /\ [][Next]_vars

\* SpecSnapshot: the context over interpreter 1 is snapshotted into interpreter
\* 2, and both interpreters run on
SnapDraw ==
    [write |-> {NoWrite, Act("Call", "Continue", <<>>, 0)},
     status |-> {"Stop"},
     mem |-> MemVals]

SnapFn == [local_stack |-> FALSE, inspect_stack_length |-> TRUE]

NextSnapshot ==
    \/ \E i \in Ids : CallWithInterpreter(i, SnapDraw)
    \/ FromInterpreterWithStack(1)
    \/ Call(SnapFn, FALSE, FALSE, SnapDraw)
    \/ ToInterpreter
    \/ DropCtx

SpecSnapshot == Init /\ [][NextSnapshot]_vars

----------------------------------------------------------------------------
(* SpecStack: stack views are constructed over storage of every size around
   the capacity, by every constructor, in both build modes *)

\* how far from CAPACITY the sizes of the backing storage range
Window == 2

StackSizes == {0} \cup ((CAPACITY - Window) .. (CAPACITY + Window))

Constructed(op, n, res) ==
    [op |-> op, backing |-> n, res |-> res, slice_len |-> 0, bytes_len |-> 0]

\* an interpreter whose stack vector (Stack::data_mut) has capacity n
InterpreterWithStack(n) ==
    [NewInterpreter(CHOOSE p \in Profiles : TRUE, MaxGas, 1) EXCEPT !.stack.cap = n]

StackFrame == UNCHANGED <<debug_assertions, callVars, wordVars>>

FromSlice(n) ==
    /\ sv' = Constructed("from_slice", n, from_slice(n))
    /\ StackFrame

FromMutSlice(n) ==
    /\ sv' = Constructed("from_mut_slice", n, from_mut_slice(n))
    /\ StackFrame

FromVec(n) ==
    /\ sv' = Constructed("from_vec", n, from_vec(n))
    /\ StackFrame

FromMutVec(n) ==
    /\ sv' = Constructed("from_mut_vec", n, from_mut_vec(n))
    /\ StackFrame

FromPtr(n) ==
    /\ sv' = Constructed("from_ptr", n, from_ptr(n))
    /\ StackFrame

FromMutPtr(n) ==
    /\ sv' = Constructed("from_mut_ptr", n, from_mut_ptr(n))
    /\ StackFrame

FromInterpreterStack(n) ==
    /\ LET r == from_interpreter_stack([cap |-> n, len |-> 0], debug_assertions)
       IN  sv' = Constructed("from_interpreter_stack", n,
                             IF r.outcome = "panic" THEN Panic ELSE r.stack)
    /\ StackFrame

ContextFromInterpreterWithStack(n) ==
    /\ LET r == from_interpreter_with_stack(1, InterpreterWithStack(n), debug_assertions)
       IN  sv' = Constructed("from_interpreter_with_stack", n,
                             IF r.outcome = "panic" THEN Panic ELSE r.stack)
    /\ StackFrame

\* call_with_interpreter on an interpreter whose stack has capacity n: it
\* panics in from_interpreter_stack, or the compiled function is run
RunWithStack(n) ==
    /\ \E e \in Effects(InterpreterWithStack(n), RunDraw) :
         LET r == call_with_interpreter(e, 1, InterpreterWithStack(n), heap,
                                        debug_assertions)
         IN  sv' = Constructed("call_with_interpreter", n,
                               IF r.outcome = "panic" THEN Panic
                               ELSE [outcome |-> "ran"])
    /\ StackFrame

AsSlice ==
    /\ sv.op # "none"
    /\ sv.res.outcome = "view"
    /\ sv' = [sv EXCEPT !.slice_len = as_slice(sv.res)]
    /\ StackFrame

AsBytes ==
    /\ sv.op # "none"
    /\ sv.res.outcome = "view"
    /\ sv' = [sv EXCEPT !.bytes_len = as_bytes(sv.res)]
    /\ StackFrame

InitStack ==
    /\ debug_assertions \in BOOLEAN
    /\ IdleCall
    /\ IdleStack
    /\ IdleWord

NextStack ==
    \/ \E n \in StackSizes : FromSlice(n)
    \/ \E n \in StackSizes : FromMutSlice(n)
    \/ \E n \in StackSizes : FromVec(n)
    \/ \E n \in StackSizes : FromMutVec(n)
    \/ \E n \in StackSizes : FromPtr(n)
    \/ \E n \in StackSizes : FromMutPtr(n)
    \/ \E n \in StackSizes : FromInterpreterStack(n)
    \/ \E n \in StackSizes : ContextFromInterpreterWithStack(n)
    \/ \E n \in StackSizes : RunWithStack(n)
    \/ AsSlice
    \/ AsBytes

SpecStack == InitStack /\ [][NextStack]_vars

----------------------------------------------------------------------------
(* EvmWord: 32 bytes in native order.  A byte array is a sequence of 32 bytes,
   index 1 here being index 0 of the array.  A U256 is written as its 32
   base-256 digits, least significant first; an unsigned integer of width W as
   its W/8 digits. *)

WORD_BYTES == 32

Widths == {8, 16, 32, 64, 128}

Targets == {"little", "big"}

Reverse(s) == [i \in 1 .. Len(s) |-> s[Len(s) + 1 - i]]

Zeros(n) == [i \in 1 .. n |-> 0]

\* EvmWord::ZERO
ZERO == Zeros(WORD_BYTES)

\* swap_bytes reversing the bytes of each 64-bit limb only
swap_bytes_limbs(x) == [i \in 1 .. Len(x) |-> x[((i - 1) \div 8) * 8 + 8 - ((i - 1) % 8)]]

\* EvmWord::swap_bytes: self.0.reverse()
swap_bytes(x) == Reverse(x)

\* EvmWord::from_ne_bytes
from_ne_bytes(x) == x

\* EvmWord::from_be / from_le
from_be(t, x) == IF t = "little" THEN swap_bytes(x) ELSE x

from_le(t, x) == IF t = "little" THEN x ELSE swap_bytes(x)

\* EvmWord::from_be_bytes / from_le_bytes
from_be_bytes(t, x) == from_be(t, from_ne_bytes(x))

from_le_bytes(t, x) == from_le(t, from_ne_bytes(x))

\* EvmWord::to_ne_bytes
to_ne_bytes(x) == x

\* EvmWord::to_be / to_le
to_be(t, x) == IF t = "little" THEN swap_bytes(x) ELSE x

to_le(t, x) == IF t = "little" THEN x ELSE swap_bytes(x)

\* EvmWord::to_be_bytes / to_le_bytes
to_be_bytes(t, x) == to_ne_bytes(to_be(t, x))

to_le_bytes(t, x) == to_ne_bytes(to_le(t, x))

\* U256::to_be_bytes / U256::from_be_bytes, on digits
U256_to_be_bytes(v) == Reverse(v)

U256_from_be_bytes(b) == Reverse(b)

\* EvmWord::from_u256: a transmute on little-endian targets (the limbs of a
\* U256 are stored least significant first), value.to_be_bytes() on big-endian
from_u256(t, v) == IF t = "little" THEN v ELSE U256_to_be_bytes(v)

\* EvmWord::to_u256: *self.as_u256() on little-endian targets,
\* U256::from_be_bytes(self.0) on big-endian
to_u256(t, w) == IF t = "little" THEN w ELSE U256_from_be_bytes(w)

\* U256::from(value: uW): zero extension
U256_from_uint(x) == x \o Zeros(WORD_BYTES - Len(x))

\* U256 -> uW try_into: an error when the value does not fit
U256_try_into(v, W) ==
    IF \A i \in (W \div 8 + 1) .. WORD_BYTES : v[i] = 0
    THEN [ok |-> TRUE, val |-> SubSeq(v, 1, W \div 8)]
    ELSE [ok |-> FALSE, err |-> "overflow"]

\* impl From<uW> for EvmWord
from_uint(t, x) == from_u256(t, U256_from_uint(x))

\* a conversion that keeps the low W bits, as a cast would
try_from_truncating(t, w, W) ==
    [ok |-> TRUE, val |-> SubSeq(to_u256(t, w), 1, W \div 8)]

\* impl TryFrom<EvmWord> for uW: value.to_u256().try_into().map_err(|_| ())
try_from(t, w, W) ==
    LET r == U256_try_into(to_u256(t, w), W)
    IN  IF r.ok THEN r ELSE [ok |-> FALSE, err |-> "()"]

\* Address::from_word: the last 20 bytes of the 32
Address_from_word(b) == SubSeq(b, 13, 32)

\* to_address reading the word in native order
to_address_native(t, w) == Address_from_word(to_ne_bytes(w))

\* EvmWord::to_address
to_address(t, w) == Address_from_word(to_be_bytes(t, w))

----------------------------------------------------------------------------
(* SpecWord: a byte buffer is made into a word, and the word is converted *)

\* how many bytes of an input buffer may be nonzero
MaxNonZero == 1

ByteVals == {1, 255}

RECURSIVE Sparse(_)
Sparse(k) ==
    IF k = 0 THEN {ZERO}
    ELSE LET S == Sparse(k - 1)
         IN  S \cup {[b EXCEPT ![i] = v] : b \in S, i \in 1 .. WORD_BYTES, v \in ByteVals}

\* 2^W - 1 in little-endian byte order
MaxOf(W) == [i \in 1 .. WORD_BYTES |-> IF i <= W \div 8 THEN 255 ELSE 0]

\* buffers whose bytes are all different, all 255, and the largest value of
\* each width in either byte order
Specials ==
    {[i \in 1 .. WORD_BYTES |-> i], [i \in 1 .. WORD_BYTES |-> 255]}
        \cup {MaxOf(W) : W \in Widths} \cup {Reverse(MaxOf(W)) : W \in Widths}

Buffers == Sparse(MaxNonZero) \cup Specials

ToOps == {"to_be_bytes", "to_le_bytes", "to_ne_bytes"}
FromOps == {"from_be_bytes", "from_le_bytes", "from_ne_bytes"}

WordFrame == UNCHANGED <<debug_assertions, callVars, sv, target>>

\* the bytes a from_*_bytes call is given: the caller's buffer, or the bytes
\* the last to_*_bytes call returned
Given == IF wout.op \in ToOps THEN wout.bytes ELSE buf

FromBytes(op, w) ==
    /\ wout.op \in {"none"} \cup ToOps
    /\ word' = w
    /\ wout' = [op |-> op, prev |-> wout.op, input |-> Given, orig |-> word]
    /\ UNCHANGED buf
    /\ WordFrame

FromNeBytes == FromBytes("from_ne_bytes", from_ne_bytes(Given))

FromBeBytes == FromBytes("from_be_bytes", from_be_bytes(target, Given))

FromLeBytes == FromBytes("from_le_bytes", from_le_bytes(target, Given))

\* EvmWord::from(x) for the integer of width W held in the low bytes of buf
FromUint(W) ==
    /\ wout.op = "none"
    /\ LET x == SubSeq(buf, 1, W \div 8)
       IN  /\ word' = from_uint(target, x)
           /\ wout' = [op |-> "from_uint", prev |-> "none", width |-> W, x |-> x]
    /\ UNCHANGED buf
    /\ WordFrame

\* the word in hand was made from the caller's input
Made == wout.op \in FromOps \cup {"from_uint"} /\ wout.prev = "none"

ToBytes(op, b) ==
    /\ Made
    /\ wout' = [op |-> op, prev |-> wout.op, bytes |-> b]
    /\ UNCHANGED <<buf, word>>
    /\ WordFrame

ToNeBytes == ToBytes("to_ne_bytes", to_ne_bytes(word))

ToBeBytes == ToBytes("to_be_bytes", to_be_bytes(target, word))

ToLeBytes == ToBytes("to_le_bytes", to_le_bytes(target, word))

TryFrom(W) ==
    /\ Made
    /\ wout' = [op |-> "try_from", prev |-> wout, width |-> W,
                res |-> try_from(target, word, W)]
    /\ UNCHANGED <<buf, word>>
    /\ WordFrame

ToAddress ==
    /\ Made
    /\ wout' = [op |-> "to_address", prev |-> wout.op, addr |-> to_address(target, word)]
    /\ UNCHANGED <<buf, word>>
    /\ WordFrame

\* the conversions do not depend on the build mode
InitWord ==
    /\ debug_assertions = FALSE
    /\ IdleCall
    /\ IdleStack
    /\ target \in Targets
    /\ buf \in Buffers
    /\ word = ZERO
    /\ wout = [op |-> "none"]

NextWord ==
    \/ FromNeBytes
    \/ FromBeBytes
    \/ FromLeBytes
    \/ \E W \in Widths : FromUint(W)
    \/ ToNeBytes
    \/ ToBeBytes
    \/ ToLeBytes
    \/ \E W \in Widths : TryFrom(W)
    \/ ToAddress

SpecWord == InitWord /\ [][NextWord]_vars

----------------------------------------------------------------------------
(* Claims about JitEvmFn and EvmContext *)

RanOk == last.op = "call_with_interpreter" /\ ~last.panicked

\* C1: when the compiled function stores an action A in the context's
\* next-action slot, call_with_interpreter returns exactly A and leaves the
\* interpreter's next-action slot empty; this is so after every call of a
\* sequence on the same interpreter.
C1_ReturnsStoredAction ==
    (RanOk /\ last.write.kind # "NoWrite") =>
        /\ last.ret = last.write
        /\ interp[last.on].next_action = NoAction

\* a call that stored an action over one left in the slot by an earlier
\* low-level call
C1_Witness ==
    /\ RanOk
    /\ last.write.kind = "Call"
    /\ last.slot_at_entry.kind = "Return"
    /\ last.ret = last.write

\* C2 (as stated): when the compiled function stores no action and returns
\* status R, call_with_interpreter returns Return { R, empty output, the gas
\* after the run } and the interpreter's status is R.
C2_SynthesizedReturn ==
    (RanOk /\ last.write.kind = "NoWrite") =>
        /\ last.ret = ReturnAction(last.status, <<>>, interp[last.on].gas)
        /\ interp[last.on].instruction_result = last.status

\* C3 (as stated): the next-action slot of a context just built from an
\* interpreter is empty, so is the slot at the start of call_with_interpreter,
\* and the action call_with_interpreter returns is the one that call stored
\* or else the synthesized Return, never one left from before.
C3_SlotEmptyAtConstruction ==
    /\ pc = "ctx" => interp[ctx.ecx.of][ctx.ecx.next_action] = NoAction
    /\ RanOk => last.slot_at_entry = NoAction
    /\ RanOk => \/ last.ret = last.write
                \/ last.ret = ReturnAction(last.status, <<>>, interp[last.on].gas)

\* C10 (as stated): with debug assertions, JitEvmFn::call catches a missing
\* stack (for a function without a local stack) or a missing stack length (for
\* a function that inspects it) by an assertion before the raw function is
\* invoked; without them the raw function is invoked with null pointers.
C10_NullabilityAsserted ==
    (last.op = "call" /\ Mismatch(last.f, last.stack, last.stack_len)) =>
        IF debug_assertions
        THEN last.asserted /\ ~last.raw_invoked
        ELSE /\ ~last.asserted
             /\ last.raw_invoked
             /\ ~last.stack.some => last.stack_ptr.null
             /\ ~last.stack_len.some => last.len_ptr.null

\* C9: to_interpreter returns an interpreter whose contract, gas, memory,
\* return data, static flag and next action equal the context's at the time of
\* the call and whose stack is the supplied one; the source is left as it was,
\* and a later run of either interpreter changes nothing of the other.
C9_FullCopy ==
    /\ last.op = "to_interpreter" =>
          LET s == interp[last.dst]
              c == interp[last.src]
          IN  /\ s.live
              /\ s.contract = c.contract
              /\ s.gas = c.gas
              /\ Mem(s, heap) = Mem(c, heap)
              /\ s.return_data_buffer = c.return_data_buffer
              /\ s.is_static = ctx.ecx.is_static
              /\ s.next_action = c.next_action
              /\ s.stack = last.stack
              /\ c = last.pre
              /\ Mem(c, heap) = last.pre_mem
    /\ (RanOk \/ (last.op = "call" /\ ~last.crashed)) =>
          LET o == interp[OtherId(last.on)]
          IN  /\ o = last.other
              /\ o.live => Mem(o, heap) = last.other_mem

\* a snapshot taken after a low-level call that stored an action, spent gas
\* and wrote memory
C9_Witness ==
    /\ last.op = "to_interpreter"
    /\ is_some(interp[last.dst].next_action)
    /\ interp[last.dst].gas < MaxGas
    /\ Mem(interp[last.dst], heap) # <<>>
    /\ interp[last.dst].is_static

----------------------------------------------------------------------------
(* Claims about EvmStack *)

CheckedCtors == {"from_slice", "from_mut_slice", "from_vec", "from_mut_vec"}

DebugCheckedCtors ==
    {"from_interpreter_stack", "from_interpreter_with_stack", "call_with_interpreter"}

RawCtors == {"from_ptr", "from_mut_ptr"}

\* C4: from_slice, from_mut_slice, from_vec and from_mut_vec panic when the
\* storage holds fewer than 1024 words (slice length, vector capacity); for
\* every size of 1024 or more they return a view that exposes exactly 1024
\* words, 32768 bytes.
C4_CapacityChecked ==
    sv.op \in CheckedCtors =>
        /\ sv.backing < 1024 => sv.res.outcome = "panic"
        /\ sv.backing >= 1024 =>
              /\ sv.res.outcome = "view"
              /\ sv.res.slots = 1024
              /\ sv.slice_len \in {0, 1024}
              /\ sv.bytes_len \in {0, 32768}

\* a view over a vector larger than the capacity, read as words and as bytes
C4_Witness ==
    /\ sv.op = "from_mut_vec"
    /\ sv.backing > 1024
    /\ sv.slice_len = 1024
    /\ sv.bytes_len = 32768

\* C5 (as stated): in every build mode, every safe constructor, including
\* from_interpreter_stack and through it from_interpreter_with_stack and
\* call_with_interpreter, panics over storage of fewer than 1024 words; only
\* from_ptr and from_mut_ptr skip the check.
C5_CheckedInEveryBuild ==
    /\ (sv.op \in CheckedCtors \cup DebugCheckedCtors /\ sv.backing < CAPACITY) =>
          sv.res.outcome = "panic"
    /\ sv.op \in RawCtors => sv.res.outcome = "view"

\* C5 (amended): from_slice, from_mut_slice, from_vec and from_mut_vec panic
\* over storage of fewer than 1024 words in every build mode;
\* from_interpreter_stack, and through it from_interpreter_with_stack and
\* call_with_interpreter, panic over such storage only when debug assertions
\* are enabled and otherwise go on without a check; from_ptr and from_mut_ptr
\* never check.
C5_CheckedPerBuild ==
    /\ (sv.op \in CheckedCtors /\ sv.backing < CAPACITY) => sv.res.outcome = "panic"
    /\ (sv.op \in DebugCheckedCtors /\ sv.backing < CAPACITY) =>
          (sv.res.outcome = "panic" <=> debug_assertions)
    /\ (sv.op \in DebugCheckedCtors /\ sv.backing >= CAPACITY) =>
          sv.res.outcome # "panic"
    /\ sv.op \in RawCtors => sv.res.outcome = "view"

\* without debug assertions, a view made from an interpreter stack that is one
\* word short
C5_Witness ==
    /\ ~debug_assertions
    /\ sv.op = "from_interpreter_stack"
    /\ sv.backing = CAPACITY - 1
    /\ sv.res.outcome = "view"

----------------------------------------------------------------------------
(* Claims about EvmWord *)

\* the 256-bit value of a word, as digits least significant first: the word's
\* bytes are that value in the target's byte order
Value(t, w) == IF t = "little" THEN w ELSE [i \in 1 .. 32 |-> w[33 - i]]

\* 2^W as digits
Pow2(W) == [i \in 1 .. 32 |-> IF i = W \div 8 + 1 THEN 1 ELSE 0]

\* a >= b, for digit sequences of the same length
GEq(a, b) ==
    LET D == {i \in 1 .. Len(a) : a[i] # b[i]}
    IN  D = {} \/ (LET m == CHOOSE i \in D : \A j \in D : j <= i IN a[m] > b[m])

Flipped(b) == [i \in 1 .. 32 |-> b[33 - i]]

\* C6: from_be_bytes(to_be_bytes(v)) = v, and so for the little-endian and the
\* native-order pairs, on both targets; the native-order conversions leave the
\* 32 bytes as they are; of the big-endian and the little-endian conversions
\* the one of the target's order leaves them as they are and the other
\* reverses all 32, so to_be_bytes(v) is to_le_bytes(v) reversed.
C6_ByteOrder ==
    /\ (wout.op = "from_be_bytes" /\ wout.prev = "to_be_bytes") => word = wout.orig
    /\ (wout.op = "from_le_bytes" /\ wout.prev = "to_le_bytes") => word = wout.orig
    /\ (wout.op = "from_ne_bytes" /\ wout.prev = "to_ne_bytes") => word = wout.orig
    /\ wout.op = "to_ne_bytes" => wout.bytes = word
    /\ wout.op = "to_be_bytes" =>
          wout.bytes = IF target = "big" THEN word ELSE Flipped(word)
    /\ wout.op = "to_le_bytes" =>
          wout.bytes = IF target = "little" THEN word ELSE Flipped(word)
    /\ wout.op = "from_ne_bytes" => word = wout.input
    /\ wout.op = "from_be_bytes" =>
          word = IF target = "big" THEN wout.input ELSE Flipped(wout.input)
    /\ wout.op = "from_le_bytes" =>
          word = IF target = "little" THEN wout.input ELSE Flipped(wout.input)
    /\ Made => to_be_bytes(target, word) = Flipped(to_le_bytes(target, word))

\* on a little-endian target, a word of 32 different bytes that went to
\* big-endian bytes (its reversal) and back
C6_Witness ==
    /\ target = "little"
    /\ wout.op = "from_be_bytes"
    /\ wout.prev = "to_be_bytes"
    /\ word = [i \in 1 .. 32 |-> i]
    /\ wout.input = [i \in 1 .. 32 |-> 33 - i]

\* C7: for W in {8, 16, 32, 64, 128}, the conversion of a word to the unsigned
\* integer of width W fails, with the error (), exactly when the word's value
\* is at least 2^W; when it succeeds the integer is the word's value, nothing
\* cut off; and a word made from an integer x of width W converts back to x;
\* on both targets.
C7_Narrowing ==
    wout.op = "try_from" =>
        LET W == wout.width
            d == Value(target, word)
            r == wout.res
        IN  /\ r.ok <=> ~GEq(d, Pow2(W))
            /\ r.ok => /\ Len(r.val) = W \div 8
                       /\ \A i \in 1 .. 32 :
                            d[i] = IF i <= W \div 8 THEN r.val[i] ELSE 0
            /\ ~r.ok => r = [ok |-> FALSE, err |-> "()"]
            /\ (wout.prev.op = "from_uint" /\ wout.prev.width = W) =>
                  r.ok /\ r.val = wout.prev.x

\* on a big-endian target, the word made from 2^128 - 1 converted back to u128
C7_Witness ==
    /\ target = "big"
    /\ wout.op = "try_from"
    /\ wout.width = 128
    /\ wout.prev.op = "from_uint"
    /\ wout.prev.width = 128
    /\ wout.prev.x = [i \in 1 .. 16 |-> 255]
    /\ wout.res.ok
    /\ wout.res.val = wout.prev.x

\* C8: for every 32-byte buffer b, from_be_bytes(b).to_address() is b[12..32],
\* whatever b[0..12] holds.
C8_Address ==
    (wout.op = "to_address" /\ wout.prev = "from_be_bytes") =>
        wout.addr = [i \in 1 .. 20 |-> buf[i + 12]]

\* the address of a buffer of 32 different bytes, none of them zero
C8_Witness ==
    /\ wout.op = "to_address"
    /\ wout.prev = "from_be_bytes"
    /\ target = "little"
    /\ buf = [i \in 1 .. 32 |-> i]
    /\ wout.addr = [i \in 1 .. 20 |-> i + 12]

====
